---- MODULE Spec2Model ----
(***************************************************************************)
(* The planner -> supervisor -> worker -> supervisor -> ... -> analyst     *)
(* pipeline of travel_agent: the procurement plan (a dependency graph of   *)
(* data slots), the reducers of graph/state.py and the DAG engine of       *)
(* agents/supervisor.py.                                                   *)
(*                                                                         *)
(* Strings are sequences of chunks (a chunk stands for up to 100           *)
(* characters), so that prefix tests and the [:n] truncations of the code  *)
(* are computed and not assumed.  Python None / "" / [] are all "falsy";   *)
(* None is the empty text.                                                 *)
(***************************************************************************)
EXTENDS Integers, Sequences, FiniteSets, TLC

\* ---------------------------------------------------------------- bounds
MaxSlots == 3
MaxDependencies == 2
MaxRepeatedIdSlots == 2
MaxListLen == 2
MaxWrites == 2
MaxRetries == 2
MaxCacheOps == 4

\* ------------------------------------------------------- program constants
MAX_ITERATIONS == 10

\* ------------------------------------------------------------ small helpers
None == <<>>

Truthy(text) == Len(text) > 0

\* s[:n] with n given in characters; one chunk is 100 characters
Take(text, chunks) ==
    IF Len(text) <= chunks THEN text ELSE SubSeq(text, 1, chunks)

Range(f) == {f[i] : i \in DOMAIN f}

\* ----------------------------------------------------- values of trip_data
\* a trip_data value is a list of records (isinstance(value, list)) or a text
ListValue(items) == [list |-> TRUE, items |-> items, text |-> None]
TextValue(text) == [list |-> FALSE, items |-> <<>>, text |-> text]
Absent == TextValue(None)

Get(data, key) == IF key \in DOMAIN data THEN data[key] ELSE Absent

ValueTruthy(v) == IF v.list THEN Len(v.items) > 0 ELSE Truthy(v.text)

\* texts that occur
SeasideInn == <<"Seaside Inn">>
SearchResult == <<"r1", "r2", "r3", "r4", "r5", "r6">>
Description == <<"desc">>

UnknownHotel == <<"unknown hotel">>          \* "未知酒店"
HotelFailureContent == <<"[Hotel Agent] FAILURE - MISSING_CAPABILITY", "reason", "suggestion">>
HotelFoundContent == <<"[Hotel Agent] bookings found">>
HotelNoneContent == <<"[Hotel Agent] no booking found">>
SearchDoneContent == <<"[Search Agent] search done">>
WeatherDoneContent == <<"[Weather Agent] result">>
WeatherNoLocationContent == <<"[Weather Agent] cannot determine location">>

\* ------------------------------------------------ graph/state.py reducers
\* {**old, **item} / dict.update
\* replacement of the record instead of dict.update
DictUpdate_replace(old, item) == item

DictUpdate(old, item) ==
    [k \in (DOMAIN old) \cup (DOMAIN item) |->
        IF k \in DOMAIN item THEN item[k] ELSE old[k]]

\* id_to_idx: a dict comprehension keeps the LAST index of a repeated id
LastIndexOf(ids, id) ==
    IF \E i \in DOMAIN ids : ids[i] = id
    THEN CHOOSE i \in DOMAIN ids :
            /\ ids[i] = id
            /\ \A j \in DOMAIN ids : ids[j] = id => j <= i
    ELSE 0

\* a list element: a dict is a function from its keys, a plain value v is Scalar(v)
Scalar(v) == [scalar |-> v]

\* isinstance(x, dict) and "id" in x
HasId(x) == "scalar" \notin DOMAIN x /\ "id" \in DOMAIN x

\* a lookup that finds no id
IdToIdx_never(existing, id) == 0

\* id_to_idx.get(id): the last record of existing that carries the id, 0 if none
IdToIdx(existing, id) ==
    LET with == {i \in DOMAIN existing : HasId(existing[i]) /\ existing[i].id = id}
    IN  IF with = {} THEN 0 ELSE CHOOSE i \in with : \A j \in with : j <= i

\* list.extend: every element of the update appended
UpsertItems_extend(existing, items) == existing \o items

\* the loop over the update's list: records with an id are merged into the record
\* of that id or appended, anything else is appended unless an equal element exists
RECURSIVE UpsertItems(_, _)
UpsertItems(existing, items) ==
    IF items = <<>> THEN existing
    ELSE IF HasId(Head(items))
    THEN IF IdToIdx(existing, Head(items).id) # 0
         THEN UpsertItems(
                 [existing EXCEPT ![IdToIdx(existing, Head(items).id)] =
                     DictUpdate(existing[IdToIdx(existing, Head(items).id)], Head(items))],
                 Tail(items))
         ELSE UpsertItems(Append(existing, Head(items)), Tail(items))
    ELSE IF \E i \in DOMAIN existing : existing[i] = Head(items)
    THEN UpsertItems(existing, Tail(items))
    ELSE UpsertItems(Append(existing, Head(items)), Tail(items))

\* dict.update: every key of the update overwrites the stored value
MergeKeys_overwrite(current, update) ==
    [key \in (DOMAIN current) \cup (DOMAIN update) |->
        IF key \in DOMAIN update THEN update[key] ELSE current[key]]

\* the loop over update.items() on merged = current.copy()
MergeKeys(current, update) ==
    [key \in (DOMAIN current) \cup (DOMAIN update) |->
        IF key \notin DOMAIN update THEN current[key]
        ELSE IF update[key].list /\ key \in DOMAIN current /\ current[key].list
             THEN ListValue(UpsertItems(current[key].items, update[key].items))
             ELSE update[key]]

\* an argument that may be None
NoneDict == [none |-> TRUE, dict |-> <<>>]
Some(d) == [none |-> FALSE, dict |-> d]
OrEmpty(d) == IF d.none THEN <<>> ELSE d.dict

\* an update of None taken as an order to clear the store
merge_trip_data_none_clears(current, update) ==
    IF update.none THEN <<>> ELSE MergeKeys(OrEmpty(current), update.dict)

merge_trip_data(current, update) ==
    IF update.none THEN OrEmpty(current)
    ELSE MergeKeys(OrEmpty(current), update.dict)

\* a reducer that only adds
reset_or_increment_no_reset(current, update) == current + update

reset_or_increment(current, update) ==
    IF update = 0 THEN 0 ELSE current + update

\* a merge that takes the status of the update and nothing else
ApplySlotUpdate_status_only(slot, slot_update) ==
    [slot EXCEPT !.status = slot_update.status]

\* one slot update applied to one slot: {**result[idx], **slot_update}
ApplySlotUpdate(slot, slot_update) ==
    [slot EXCEPT !.status = slot_update.status,
                 !.value = IF "value" \in DOMAIN slot_update
                           THEN slot_update.value ELSE @]

RECURSIVE ApplyUpdates(_, _)
ApplyUpdates(result, update) ==
    IF update = <<>> THEN result
    ELSE LET slot_update == Head(update)
             slot_id == slot_update.id
             idx == LastIndexOf([i \in DOMAIN result |-> result[i].id], slot_id)
         IN  IF slot_id # "" /\ idx # 0
             THEN ApplyUpdates([result EXCEPT ![idx] = ApplySlotUpdate(result[idx], slot_update)],
                               Tail(update))
             ELSE ApplyUpdates(result, Tail(update))

StripReplace(slot) ==
    [id |-> slot.id, field_name |-> slot.field_name, description |-> slot.description,
     source_agent |-> slot.source_agent, dependencies |-> slot.dependencies,
     status |-> slot.status, value |-> slot.value]

update_procurement_plan(current, update) ==
    IF update = <<>> THEN current
    ELSE IF "_replace" \in DOMAIN update[1] /\ update[1]._replace
         THEN [i \in DOMAIN update |-> StripReplace(update[i])]
         ELSE ApplyUpdates(current, update)

RouteTargets == {"golf_agent", "hotel_agent", "logistics_agent", "itinerary_agent",
                 "customer_agent", "weather_agent", "search_agent", "analyst"}

\* ------------------------------------------------- agents/supervisor.py
\* FIELD_TO_TRIP_DATA: the trip_data key of a field ("" when the field is not
\* in the table) and its extractor
FIELD_TO_TRIP_DATA_fields ==
    {"hotel_name", "check_in", "weather_forecast", "reviews", "ratings", "tips"}

FIELD_TO_TRIP_DATA_key(field) ==
    CASE field \in {"hotel_name", "check_in"} -> "hotel_bookings"
      [] field = "weather_forecast" -> "weather_report"
      [] field \in {"reviews", "ratings", "tips"} -> "search_findings"
      [] OTHER -> ""

\* str(value) of a trip_data value: a list prints one piece per element
StrOf(data) ==
    IF data.list THEN [i \in DOMAIN data.items |-> ToString(data.items[i])] ELSE data.text

\* x[0].get("hotel_name") if x else None   /   x if x else None
FIELD_TO_TRIP_DATA_extract(field, data) ==
    CASE field = "hotel_name" ->
            IF data.list /\ Len(data.items) > 0 /\ "hotel_name" \in DOMAIN data.items[1]
            THEN data.items[1].hotel_name ELSE None
      [] field = "check_in" ->
            IF data.list /\ Len(data.items) > 0 /\ "check_in" \in DOMAIN data.items[1]
            THEN data.items[1].check_in ELSE None
      [] field = "weather_forecast" ->
            IF ValueTruthy(data) THEN StrOf(data) ELSE None
      [] field \in {"reviews", "ratings", "tips"} ->
            IF ValueTruthy(data) /\ ~data.list THEN data.text ELSE None
      [] OTHER -> None

\* first_booking.get(key)
ItemGet(item, key) == IF key \in DOMAIN item THEN item[key] ELSE None

RECURSIVE FirstNamed(_, _)
FirstNamed(item, keys) ==
    IF keys = <<>> THEN None
    ELSE LET value == ItemGet(item, Head(keys))
         IN  IF Truthy(value) /\ value # UnknownHotel THEN value
             ELSE FirstNamed(item, Tail(keys))

_extract_real_value(trip_data_, slot) ==
    LET agent == slot.source_agent
        field == slot.field_name
        bookings == Get(trip_data_, "hotel_bookings")
        hotel ==
            IF (agent = "hotel_agent" \/ field \in {"hotel_name", "hotel_address"})
               /\ bookings.list /\ Len(bookings.items) > 0
            THEN LET first_booking == bookings.items[1]
                     named == FirstNamed(first_booking,
                                <<"hotel_name", "name", "hotel_name_zh", "hotel_name_cn">>)
                 IN  IF Truthy(named) THEN named
                     ELSE ItemGet(first_booking, "hotel_name")
            ELSE None
        report == Get(trip_data_, "weather_report")
        weather ==
            IF (agent = "weather_agent" \/ field \in {"weather", "weather_forecast"})
               /\ ValueTruthy(report)
            THEN Take(StrOf(report), 2)
            ELSE None
        generic ==
            IF field \in FIELD_TO_TRIP_DATA_fields
            THEN LET data == Get(trip_data_, FIELD_TO_TRIP_DATA_key(field))
                 IN  IF ValueTruthy(data)
                     THEN Take(FIELD_TO_TRIP_DATA_extract(field, data), 5)
                     ELSE None
            ELSE None
    IN  IF Truthy(hotel) THEN hotel
        ELSE IF Truthy(weather) THEN weather
        ELSE generic

\* _normalize_field_name, computed on the field names that occur
_normalize_field_name(field_name) ==
    CASE field_name \in {"hotel_name", "hotel_name_cn", "hotel_name_en"} -> "hotel_name"
      [] field_name = "hotel_address" -> "hotel_address"
      [] OTHER -> ""

\* the (key, extractor) the sync step settles on: the field whose table entry is used
SyncField(field_name) ==
    IF field_name \in FIELD_TO_TRIP_DATA_fields THEN field_name
    ELSE LET normalized == _normalize_field_name(field_name)
         IN  IF normalized # "" /\ normalized \in FIELD_TO_TRIP_DATA_fields
             THEN normalized ELSE ""

RECURSIVE SyncFrom_any_status(_, _, _)
SyncFrom_any_status(plan, trip_data_, i) ==
    IF i > Len(plan) THEN <<>>
    ELSE LET slot == plan[i]
             f == SyncField(slot.field_name)
             data == IF f = "" THEN Absent ELSE Get(trip_data_, FIELD_TO_TRIP_DATA_key(f))
             value == IF ValueTruthy(data) THEN FIELD_TO_TRIP_DATA_extract(f, data) ELSE None
             rest == SyncFrom_any_status(plan, trip_data_, i + 1)
         IN  IF f # "" /\ Truthy(value)
             THEN <<[id |-> slot.id, status |-> "FILLED", value |-> Take(value, 5)]>> \o rest
             ELSE rest

RECURSIVE SyncFrom(_, _, _)
SyncFrom(plan, trip_data_, i) ==
    IF i > Len(plan) THEN <<>>
    ELSE LET slot == plan[i]
             f == SyncField(slot.field_name)
             data == IF f = "" THEN Absent ELSE Get(trip_data_, FIELD_TO_TRIP_DATA_key(f))
             value == IF ValueTruthy(data) THEN FIELD_TO_TRIP_DATA_extract(f, data) ELSE None
             rest == SyncFrom(plan, trip_data_, i + 1)
         IN  IF slot.status = "PENDING" /\ f # "" /\ Truthy(value)
             THEN <<[id |-> slot.id, status |-> "FILLED", value |-> Take(value, 5)]>> \o rest
             ELSE rest

\* no resync at all
_sync_with_trip_data_off(plan, trip_data_) == <<>>

_sync_with_trip_data(plan, trip_data_) == SyncFrom(plan, trip_data_, 1)

\* id_to_slot.get(dep_id): the last slot of the plan that carries the id, 0 if none
IdToSlot(plan, dep_id) == LastIndexOf([i \in DOMAIN plan |-> plan[i].id], dep_id)

AllDepsFilled_any(plan, slot) ==
    \E k \in DOMAIN slot.dependencies :
        LET j == IdToSlot(plan, slot.dependencies[k])
        IN  j # 0 /\ plan[j].status = "FILLED"

AllDepsFilled_or_failed(plan, slot) ==
    \A k \in DOMAIN slot.dependencies :
        LET j == IdToSlot(plan, slot.dependencies[k])
        IN  j # 0 /\ plan[j].status \in {"FILLED", "FAILED"}

\* a dependency id that names no slot counted as satisfied
AllDepsFilled_missing_ok(plan, slot) ==
    \A k \in DOMAIN slot.dependencies :
        LET j == IdToSlot(plan, slot.dependencies[k])
        IN  j = 0 \/ plan[j].status = "FILLED"

AllDepsFilled(plan, slot) ==
    \A k \in DOMAIN slot.dependencies :
        LET j == IdToSlot(plan, slot.dependencies[k])
        IN  j # 0 /\ plan[j].status = "FILLED"

\* the last such slot instead of the first
_find_runnable_slot_last(plan) ==
    LET ok == {i \in DOMAIN plan : plan[i].status = "PENDING" /\ AllDepsFilled(plan, plan[i])}
    IN  IF ok = {} THEN 0 ELSE CHOOSE i \in ok : \A j \in ok : j <= i

\* index of the first PENDING slot whose dependencies are all FILLED, 0 if none
_find_runnable_slot(plan) ==
    LET ok == {i \in DOMAIN plan : plan[i].status = "PENDING" /\ AllDepsFilled(plan, plan[i])}
    IN  IF ok = {} THEN 0 ELSE CHOOSE i \in ok : \A j \in ok : i <= j

Count(plan, status) == Cardinality({i \in DOMAIN plan : plan[i].status = status})

\* variants of _check_completion: without the deadlock branch, and with completion
\* only for a plan that has a FILLED slot
_check_completion_no_deadlock(plan) ==
    IF plan = <<>>
    THEN [is_complete |-> TRUE, is_deadlock |-> FALSE, reason |-> <<"plan is empty">>]
    ELSE IF Count(plan, "PENDING") = 0 /\ Count(plan, "DISPATCHED") = 0
    THEN [is_complete |-> TRUE, is_deadlock |-> FALSE,
          reason |-> <<"procurement complete", ToString(Count(plan, "FILLED")),
                       ToString(Count(plan, "FAILED"))>>]
    ELSE [is_complete |-> FALSE, is_deadlock |-> FALSE, reason |-> None]

_check_completion_needs_filled(plan) ==
    IF Count(plan, "PENDING") = 0 /\ Count(plan, "DISPATCHED") = 0
       /\ Count(plan, "FILLED") > 0
    THEN [is_complete |-> TRUE, is_deadlock |-> FALSE,
          reason |-> <<"procurement complete", ToString(Count(plan, "FILLED")),
                       ToString(Count(plan, "FAILED"))>>]
    ELSE IF _find_runnable_slot(plan) = 0 /\ Count(plan, "PENDING") > 0
            /\ Count(plan, "DISPATCHED") = 0
    THEN [is_complete |-> FALSE, is_deadlock |-> TRUE,
          reason |-> <<"deadlock", ToString(Count(plan, "PENDING"))>>]
    ELSE [is_complete |-> FALSE, is_deadlock |-> FALSE, reason |-> None]

\* completion only when no slot is FAILED either
_check_completion_all_filled(plan) ==
    IF plan = <<>>
    THEN [is_complete |-> TRUE, is_deadlock |-> FALSE, reason |-> <<"plan is empty">>]
    ELSE IF Count(plan, "FILLED") = Len(plan)
    THEN [is_complete |-> TRUE, is_deadlock |-> FALSE,
          reason |-> <<"procurement complete", ToString(Count(plan, "FILLED")),
                       ToString(Count(plan, "FAILED"))>>]
    ELSE IF _find_runnable_slot(plan) = 0 /\ Count(plan, "PENDING") > 0
            /\ Count(plan, "DISPATCHED") = 0
    THEN [is_complete |-> FALSE, is_deadlock |-> TRUE,
          reason |-> <<"deadlock", ToString(Count(plan, "PENDING"))>>]
    ELSE [is_complete |-> FALSE, is_deadlock |-> FALSE, reason |-> None]

\* deadlock for every plan with a PENDING slot and none DISPATCHED, without the
\* search for a runnable slot
_check_completion_no_search(plan) ==
    IF plan = <<>>
    THEN [is_complete |-> TRUE, is_deadlock |-> FALSE, reason |-> <<"plan is empty">>]
    ELSE IF Count(plan, "PENDING") = 0 /\ Count(plan, "DISPATCHED") = 0
    THEN [is_complete |-> TRUE, is_deadlock |-> FALSE,
          reason |-> <<"procurement complete", ToString(Count(plan, "FILLED")),
                       ToString(Count(plan, "FAILED"))>>]
    ELSE IF Count(plan, "PENDING") > 0 /\ Count(plan, "DISPATCHED") = 0
    THEN [is_complete |-> FALSE, is_deadlock |-> TRUE,
          reason |-> <<"deadlock", ToString(Count(plan, "PENDING"))>>]
    ELSE [is_complete |-> FALSE, is_deadlock |-> FALSE, reason |-> None]

\* (is_complete, is_deadlock, reason)
_check_completion(plan) ==
    IF plan = <<>>
    THEN [is_complete |-> TRUE, is_deadlock |-> FALSE, reason |-> <<"plan is empty">>]
    ELSE IF Count(plan, "PENDING") = 0 /\ Count(plan, "DISPATCHED") = 0
    THEN [is_complete |-> TRUE, is_deadlock |-> FALSE,
          reason |-> <<"procurement complete", ToString(Count(plan, "FILLED")),
                       ToString(Count(plan, "FAILED"))>>]
    ELSE IF _find_runnable_slot(plan) = 0 /\ Count(plan, "PENDING") > 0
            /\ Count(plan, "DISPATCHED") = 0
    THEN [is_complete |-> FALSE, is_deadlock |-> TRUE,
          reason |-> <<"deadlock", ToString(Count(plan, "PENDING"))>>]
    ELSE [is_complete |-> FALSE, is_deadlock |-> FALSE, reason |-> None]

\* ---- context hydration
\* texts the value-sanity guard rejects: INVALID_VALUES, a leading "[", or the
\* marker pieces of the 'acquired but unusable' message
INVALID_VALUES == {None, <<"none">>, <<"null">>, <<"unknown">>, UnknownHotel,
                   <<"unknown course">>, <<"n/a">>, <<"na">>, <<"tbd">>}

MarkerPieces == {"data acquired but", "cannot extract"}   \* "数据已获取", "无法提取"

IsInvalidValue(value) ==
    \/ value \in INVALID_VALUES
    \/ (Len(value) > 0 /\ value[1] = "[")
    \/ \E i \in DOMAIN value : value[i] \in MarkerPieces

\* no sentinel: the slot is FILLED with an empty value
FallbackMsg_empty(slot) == None

\* f"[{source_agent}] 数据已获取，但无法提取 {field_name}"
FallbackMsg(slot) ==
    <<"[", slot.source_agent, "data acquired but", "cannot extract", slot.field_name>>

\* entity_values[field_name] = value: a dict keeps the position of a key's first insertion
RECURSIVE DictSet(_, _, _)
DictSet(entries, field, value) ==
    IF entries = <<>> THEN <<[field |-> field, value |-> value]>>
    ELSE IF Head(entries).field = field
         THEN <<[field |-> field, value |-> value]>> \o Tail(entries)
         ELSE <<Head(entries)>> \o DictSet(Tail(entries), field, value)

RECURSIVE EntityValues(_, _, _)
EntityValues(plan, deps, acc) ==
    IF deps = <<>> THEN acc
    ELSE LET j == IdToSlot(plan, Head(deps))
         IN  IF j # 0 /\ Truthy(plan[j].value)
             THEN EntityValues(plan, Tail(deps), DictSet(acc, plan[j].field_name, plan[j].value))
             ELSE EntityValues(plan, Tail(deps), acc)

RECURSIVE ContextParts(_, _)
ContextParts(plan, deps) ==
    IF deps = <<>> THEN <<>>
    ELSE LET j == IdToSlot(plan, Head(deps))
         IN  IF j # 0 /\ Truthy(plan[j].value)
             THEN <<plan[j].field_name, "='">> \o plan[j].value \o <<"'">>
                  \o ContextParts(plan, Tail(deps))
             ELSE ContextParts(plan, Tail(deps))

DictHas(entries, field) == \E i \in DOMAIN entries : entries[i].field = field
DictGet(entries, field) ==
    entries[CHOOSE i \in DOMAIN entries : entries[i].field = field].value

FirstInvalid(entries) ==
    LET bad == {i \in DOMAIN entries : IsInvalidValue(entries[i].value)}
    IN  IF bad = {} THEN 0 ELSE CHOOSE i \in bad : \A j \in bad : i <= j

\* the instruction without the dependencies' values
_hydrate_instruction_plain(slot, plan) == slot.description

_hydrate_instruction(slot, plan) ==
    LET base_desc == slot.description
        deps == slot.dependencies
        source_agent == slot.source_agent
        entity_values == EntityValues(plan, deps, <<>>)
        context_parts == ContextParts(plan, deps)
        bad == FirstInvalid(entity_values)
    IN  IF source_agent = "search_agent" /\ entity_values # <<>> /\ bad # 0
        THEN <<"[ABORT]", entity_values[bad].field, "invalid value">>
             \o entity_values[bad].value \o <<"return FAILURE">>
        ELSE IF source_agent = "search_agent" /\ entity_values # <<>>
        THEN IF DictHas(entity_values, "hotel_name")
             THEN <<"search hotel">> \o DictGet(entity_values, "hotel_name") \o <<"reviews">>
             ELSE IF DictHas(entity_values, "course_name")
             THEN <<"search course">> \o DictGet(entity_values, "course_name") \o <<"tips">>
             ELSE IF context_parts # <<>>
             THEN <<"search">> \o context_parts \o <<"related:">> \o base_desc
             ELSE base_desc
        ELSE IF source_agent = "weather_agent" /\ entity_values # <<>>
        THEN IF DictHas(entity_values, "location")
                /\ Truthy(DictGet(entity_values, "location"))
             THEN <<"weather forecast for">> \o DictGet(entity_values, "location")
             ELSE IF DictHas(entity_values, "destination")
                     /\ Truthy(DictGet(entity_values, "destination"))
             THEN <<"weather forecast for">> \o DictGet(entity_values, "destination")
             ELSE base_desc
        ELSE IF context_parts # <<>>
        THEN base_desc \o <<"(context:">> \o context_parts \o <<")">>
        ELSE base_desc

\* ---- worker result handling
failure_keywords == {"[Hotel Agent] FAILURE - MISSING_CAPABILITY"}

IsFailureContent_never(content) == FALSE

IsFailureContent(content) == \E i \in DOMAIN content : content[i] \in failure_keywords

RECURSIVE WorkerFrom(_, _, _, _)
WorkerFrom(plan, trip_data_, last_msg, i) ==
    IF i > Len(plan) THEN <<>>
    ELSE LET slot == plan[i]
             rest == WorkerFrom(plan, trip_data_, last_msg, i + 1)
             real_value == _extract_real_value(trip_data_, slot)
         IN  IF slot.status # "DISPATCHED" \/ slot.source_agent # last_msg.name
             THEN rest
             ELSE IF IsFailureContent(last_msg.content)
             THEN <<[id |-> slot.id, status |-> "FAILED",
                     value |-> <<"failed:">> \o Take(last_msg.content, 1)]>> \o rest
             ELSE IF Truthy(real_value)
             THEN <<[id |-> slot.id, status |-> "FILLED", value |-> real_value]>> \o rest
             ELSE <<[id |-> slot.id, status |-> "FILLED", value |-> FallbackMsg(slot)]>> \o rest

_handle_worker_result(plan, trip_data_, msgs) ==
    IF msgs = <<>> THEN <<>>
    ELSE WorkerFrom(plan, trip_data_, msgs[Len(msgs)], 1)

CapReached_off_by_one(iteration) == iteration > MAX_ITERATIONS

\* the safety threshold: iteration >= 10
CapReached(iteration) == iteration >= MAX_ITERATIONS

\* ---- supervisor_node: the dict it returns (procurement_plan is the list of
\* slot updates; has_plan is FALSE when the key is not returned), with the locals
\* runnable (index of the selected slot, 0 if none) and updated_plan
ToAnalyst(instructions, all_updates, updated_plan) ==
    [next_step |-> "analyst", supervisor_instructions |-> instructions,
     iteration_count |-> 1, has_plan |-> TRUE, procurement_plan |-> all_updates,
     runnable |-> 0, updated_plan |-> updated_plan]

\* the dispatch of the runnable slot
Dispatch(slot, runnable, all_updates, updated_plan) ==
    [next_step |-> slot.source_agent,
     supervisor_instructions |-> _hydrate_instruction(slot, updated_plan),
     iteration_count |-> 1, has_plan |-> TRUE,
     procurement_plan |-> all_updates \o <<[id |-> slot.id, status |-> "DISPATCHED"]>>,
     runnable |-> runnable, updated_plan |-> updated_plan]

\* a scheduler that hands over as soon as the plan holds a FAILED slot
Decide_stop_on_failure(done, runnable, all_updates, updated_plan) ==
    IF done.is_complete
    THEN ToAnalyst(<<"data collection complete:">> \o done.reason, all_updates, updated_plan)
    ELSE IF done.is_deadlock \/ Count(updated_plan, "FAILED") > 0
    THEN ToAnalyst(<<"deadlock detected:">> \o done.reason, all_updates, updated_plan)
    ELSE IF runnable = 0
    THEN ToAnalyst(<<"waiting tasks may not have returned">>, all_updates, updated_plan)
    ELSE Dispatch(updated_plan[runnable], runnable, all_updates, updated_plan)

\* completion, deadlock, nothing runnable, or dispatch
Decide(done, runnable, all_updates, updated_plan) ==
    IF done.is_complete
    THEN ToAnalyst(<<"data collection complete:">> \o done.reason, all_updates, updated_plan)
    ELSE IF done.is_deadlock
    THEN ToAnalyst(<<"deadlock detected:">> \o done.reason, all_updates, updated_plan)
    ELSE IF runnable = 0
    THEN ToAnalyst(<<"waiting tasks may not have returned">>, all_updates, updated_plan)
    ELSE Dispatch(updated_plan[runnable], runnable, all_updates, updated_plan)

Schedule(updated_plan, all_updates) ==
    Decide(_check_completion(updated_plan), _find_runnable_slot(updated_plan),
           all_updates, updated_plan)

\* updated_plan = apply_updates_to_plan(procurement_plan, all_updates)
Absorb(plan, all_updates) ==
    Schedule(IF all_updates # <<>> THEN ApplyUpdates(plan, all_updates) ELSE plan, all_updates)

supervisor_node(plan, trip_data_, msgs, iteration) ==
    IF CapReached(iteration)
    THEN [next_step |-> "analyst",
          supervisor_instructions |-> <<"max iterations reached", "summarise">>,
          iteration_count |-> 1, has_plan |-> FALSE, procurement_plan |-> <<>>,
          runnable |-> 0, updated_plan |-> plan]
    ELSE Absorb(plan, _handle_worker_result(plan, trip_data_, msgs)
                      \o _sync_with_trip_data(plan, trip_data_))

\* ------------------------------------------------------ the planner's plans
SlotIds == <<"s1", "s2", "s3", "s4", "s5", "s6", "s7", "s8", "s9", "s10", "s11", "s12">>
DanglingId == "zz"

\* one slot's dependencies: none, one of the plan's ids, an id no slot has, or two ids
DependencyChoices ==
    {<<>>, <<"s1">>, <<"s2">>, <<"s3">>, <<DanglingId>>, <<"s1", "s2">>}

\* (field_name, source_agent) of the slots the planner emits
Kinds == {[field_name |-> "hotel_name", source_agent |-> "hotel_agent"],
          [field_name |-> "reviews", source_agent |-> "search_agent"]}

\* planner_node: DataSlotSpec -> DataSlot
DataSlot(id, kind, deps) ==
    [id |-> id, field_name |-> kind.field_name, description |-> Description,
     source_agent |-> kind.source_agent, dependencies |-> deps,
     status |-> "PENDING", value |-> None, _replace |-> TRUE]

\* the ids of an n-slot plan: all different or, in a plan of at most
\* MaxRepeatedIdSlots slots, the second slot repeats the first one's id
IdPatterns(n) ==
    {[i \in 1..n |-> SlotIds[i]]} \cup
    (IF n >= 2 /\ n <= MaxRepeatedIdSlots
     THEN {[i \in 1..n |-> IF i = 1 THEN SlotIds[1] ELSE SlotIds[i - 1]]} ELSE {})

RECURSIVE SumLen(_, _)
SumLen(d, i) == IF i = 0 THEN 0 ELSE Len(d[i]) + SumLen(d, i - 1)

DependencyShapes(n) ==
    {d \in [1..n -> DependencyChoices] : SumLen(d, n) <= MaxDependencies}

PlansOfSize(n) ==
    {[i \in 1..n |-> DataSlot(ids[i], kinds[i], deps[i])] :
        ids \in IdPatterns(n), kinds \in [1..n -> Kinds], deps \in DependencyShapes(n)}

\* a plan with more independent slots than the safety threshold allows passes
LongPlan ==
    [i \in 1..(MAX_ITERATIONS + 1) |->
        DataSlot(SlotIds[i], [field_name |-> "hotel_name", source_agent |-> "hotel_agent"], <<>>)]

\* a plan whose first two slots carry one id, the first depending on that id, and
\* whose third slot is independent
SharedIdPlan ==
    <<DataSlot(SlotIds[1], [field_name |-> "hotel_name", source_agent |-> "hotel_agent"],
               <<SlotIds[1]>>),
      DataSlot(SlotIds[1], [field_name |-> "reviews", source_agent |-> "search_agent"], <<>>),
      DataSlot(SlotIds[2], [field_name |-> "hotel_name", source_agent |-> "hotel_agent"], <<>>)>>

\* a plan that asks the hotel agent for the check-in date
CheckInPlan ==
    <<DataSlot(SlotIds[1], [field_name |-> "check_in", source_agent |-> "hotel_agent"], <<>>)>>

\* a plan whose weather slot depends on the hotel's name
WeatherPlan ==
    <<DataSlot(SlotIds[1], [field_name |-> "hotel_name", source_agent |-> "hotel_agent"], <<>>),
      DataSlot(SlotIds[2], [field_name |-> "weather_forecast", source_agent |-> "weather_agent"],
               <<SlotIds[1]>>)>>

\* DataSlotSpec.source_agent is any str: a plan that names an agent the graph lacks
UnroutedPlan ==
    <<DataSlot(SlotIds[1], [field_name |-> "hotel_name", source_agent |-> "concierge_agent"],
               <<>>)>>

PlannerPlans ==
    UNION {PlansOfSize(n) : n \in 0..MaxSlots}
    \cup {LongPlan, SharedIdPlan, CheckInPlan, WeatherPlan, UnroutedPlan}

\* --------------------------------------------- the session when a turn starts
FilledSlot(id, kind, value) ==
    [id |-> id, field_name |-> kind.field_name, description |-> Description,
     source_agent |-> kind.source_agent, dependencies |-> <<>>,
     status |-> "FILLED", value |-> value]

HotelKind == [field_name |-> "hotel_name", source_agent |-> "hotel_agent"]
ReviewsKind == [field_name |-> "reviews", source_agent |-> "search_agent"]

HotelItem(name) == [id |-> "h1", hotel_name |-> name, check_in |-> <<"2026-01-05">>]

\* report_item of _get_specific_weather, one per queried date
WeatherItem(date) == [date |-> date, location |-> "Los Cabos", desc |-> "sunny"]

WeatherUpdate ==
    [k \in {"weather_report"} |->
        ListValue(<<WeatherItem("d1"), WeatherItem("d2"), WeatherItem("d3")>>)]

Customer == [k \in {"customer"} |-> TextValue(<<"customer">>)]

HotelUpdate(items) ==
    [k \in {"hotel_bookings", "hotel_count"} |->
        IF k = "hotel_bookings" THEN ListValue(items) ELSE TextValue(<<ToString(Len(items))>>)]

SearchUpdate ==
    [k \in {"search_findings", "search_query"} |->
        IF k = "search_findings" THEN TextValue(SearchResult) ELSE TextValue(<<"query">>)]

\* a new session (app.py: no channel written yet), a session whose earlier turn
\* fetched the hotel, one whose earlier turn fetched the hotel and its reviews, and
\* one whose earlier turn only ran a search
Sessions ==
    {[trip_data |-> <<>>, procurement_plan |-> <<>>, iteration_count |-> 0,
      first_call |-> TRUE],
     [trip_data |-> merge_trip_data(Some(Customer), Some(HotelUpdate(<<HotelItem(SeasideInn)>>))),
      procurement_plan |-> <<FilledSlot("s1", HotelKind, SeasideInn)>>,
      iteration_count |-> 2, first_call |-> FALSE],
     [trip_data |-> merge_trip_data(
                       Some(merge_trip_data(Some(Customer),
                                            Some(HotelUpdate(<<HotelItem(SeasideInn)>>)))),
                       Some(SearchUpdate)),
      procurement_plan |-> <<FilledSlot("s1", HotelKind, SeasideInn),
                             FilledSlot("s2", ReviewsKind, Take(SearchResult, 5))>>,
      iteration_count |-> 3, first_call |-> FALSE],
     [trip_data |-> merge_trip_data(Some(Customer), Some(SearchUpdate)),
      procurement_plan |-> <<FilledSlot("s1", ReviewsKind, Take(SearchResult, 5))>>,
      iteration_count |-> 2, first_call |-> FALSE]}

\* ------------------------------------------------------------------ state
VARIABLES procurement_plan, trip_data, messages, iteration_count, next_step,
          supervisor_instructions, pc, first_call, runnable, dispatch_count,
          supervisor_calls, dispatched, updated_plan, start_data, planned,
          fact_store, fact_before, fact_update, fact_keys, writes

\* the graph's run
run_vars == <<procurement_plan, trip_data, messages, iteration_count, next_step,
              supervisor_instructions, pc, first_call, runnable, dispatch_count,
              supervisor_calls, dispatched, updated_plan, start_data, planned>>

\* a Fact Store written on its own: the store, the two arguments of the last
\* merge_trip_data call, the keys the store ever held, the number of writes
fact_vars == <<fact_store, fact_before, fact_update, fact_keys, writes>>

\* one call of SelfHealingGemini.invoke / ainvoke: the wrapper's configuration, its
\* position (llm_pc), the loop index, the last malformed response kept, the calls
\* made to the two models so far and what the call gave back
VARIABLES llm_pc, llm_mode, max_retries, fallback_llm, attempt, last_response,
          llm_calls, llm_result

llm_vars == <<llm_pc, llm_mode, max_retries, fallback_llm, attempt, last_response,
              llm_calls, llm_result>>

\* a CacheManager: its two session dicts, the last method called with its
\* trip_id argument, and the number of calls made
VARIABLES _session_context, _trip_sessions, cache_op, cache_trip, cache_ops

cache_vars == <<_session_context, _trip_sessions, cache_op, cache_trip, cache_ops>>

vars == <<run_vars, fact_vars, llm_vars, cache_vars>>

\* no wrapper call under way, and a CacheManager as __init__ leaves it
LlmIdle ==
    /\ llm_pc = "IDLE"
    /\ llm_mode = ""
    /\ max_retries = 0
    /\ fallback_llm = FALSE
    /\ attempt = 0
    /\ last_response = <<>>
    /\ llm_calls = <<>>
    /\ llm_result = <<>>

CacheEmpty ==
    /\ _session_context = <<>>
    /\ _trip_sessions = <<>>
    /\ cache_op = ""
    /\ cache_trip = ""
    /\ cache_ops = 0

\* bookkeeping of the turn: the supervisor's locals runnable and updated_plan of its
\* last pass, the number of passes and dispatches, the slots (by position) routed
\* to a worker, and the Fact Store the turn started with
history == <<runnable, dispatch_count, supervisor_calls, dispatched, updated_plan, start_data>>

Message(name, content) == [name |-> name, content |-> content]

Init ==
    /\ \E s \in Sessions :
          /\ procurement_plan = s.procurement_plan
          /\ trip_data = s.trip_data
          /\ iteration_count = s.iteration_count
          /\ first_call = s.first_call
    /\ messages = <<>>
    /\ next_step = IF first_call THEN "" ELSE "analyst"
    /\ supervisor_instructions = None
    /\ pc = "START"
    /\ runnable = 0
    /\ dispatch_count = 0
    /\ supervisor_calls = 0
    /\ dispatched = {}
    /\ updated_plan = <<>>
    /\ start_data = <<>>
    /\ planned = <<>>
    /\ fact_store = NoneDict
    /\ fact_before = NoneDict
    /\ fact_update = NoneDict
    /\ fact_keys = {}
    /\ writes = 0
    /\ LlmIdle
    /\ CacheEmpty

\* app.py on_message: a user message starts a turn at the planner
on_message ==
    /\ pc = "START"
    /\ messages' = <<Message("", <<"user question">>)>>
    /\ iteration_count' = reset_or_increment(iteration_count, 0)
    /\ IF first_call
       THEN /\ trip_data' = merge_trip_data(Some(trip_data), Some(Customer))
            /\ next_step' = "supervisor"
            /\ supervisor_instructions' = None
       ELSE UNCHANGED <<trip_data, next_step, supervisor_instructions>>
    /\ first_call' = FALSE
    /\ pc' = "planner"
    /\ start_data' = trip_data'
    /\ UNCHANGED <<procurement_plan, runnable, dispatch_count, supervisor_calls, dispatched,
                   updated_plan, planned, fact_vars, llm_vars, cache_vars>>

planner_node ==
    /\ pc = "planner"
    /\ \E plan \in PlannerPlans :
          /\ planned' = plan
          /\ procurement_plan' = update_procurement_plan(procurement_plan, plan)
    /\ messages' = <<Message("planner", <<"[Planner] plan generated">>)>>
    /\ next_step' = "supervisor"
    /\ pc' = "supervisor"
    /\ UNCHANGED <<trip_data, iteration_count, supervisor_instructions, first_call, history,
                   fact_vars, llm_vars, cache_vars>>

\* the state update LangGraph makes from the dict the supervisor returned
Reduce(out) ==
    /\ next_step' = out.next_step
    /\ supervisor_instructions' = out.supervisor_instructions
    /\ iteration_count' = reset_or_increment(iteration_count, out.iteration_count)
    /\ procurement_plan' =
          IF out.has_plan
          THEN update_procurement_plan(procurement_plan, out.procurement_plan)
          ELSE procurement_plan
    /\ runnable' = out.runnable
    /\ updated_plan' = out.updated_plan
    /\ dispatch_count' = IF out.runnable # 0 THEN dispatch_count + 1 ELSE dispatch_count
    /\ dispatched' = IF out.runnable # 0 THEN dispatched \cup {out.runnable}
                     ELSE dispatched
    /\ pc' = IF out.next_step \in RouteTargets THEN out.next_step ELSE "ERROR"

\* a supervisor that records its decision in the Fact Store
supervisor_writes_store ==
    /\ pc = "supervisor"
    /\ Reduce(supervisor_node(procurement_plan, trip_data, messages, iteration_count))
    /\ messages' = <<Message("supervisor", <<"[Supervisor]">>)>>
    /\ supervisor_calls' = supervisor_calls + 1
    /\ trip_data' = merge_trip_data(Some(trip_data),
                                    Some([k \in {"supervisor_status"} |-> TextValue(<<"done">>)]))
    /\ UNCHANGED <<first_call, start_data, planned, fact_vars, llm_vars, cache_vars>>

supervisor ==
    /\ pc = "supervisor"
    /\ Reduce(supervisor_node(procurement_plan, trip_data, messages, iteration_count))
    /\ messages' = <<Message("supervisor", <<"[Supervisor]">>)>>
    /\ supervisor_calls' = supervisor_calls + 1
    /\ UNCHANGED <<trip_data, first_call, start_data, planned, fact_vars, llm_vars, cache_vars>>

\* a worker that marks its own slot FILLED in the plan
WorkerReturn_marks_slot(update, name, content) ==
    /\ trip_data' = merge_trip_data(Some(trip_data), Some(update))
    /\ messages' = <<Message(name, content)>>
    /\ pc' = "supervisor"
    /\ procurement_plan' =
          [i \in DOMAIN procurement_plan |->
              IF procurement_plan[i].status = "DISPATCHED"
              THEN [procurement_plan[i] EXCEPT !.status = "FILLED"]
              ELSE procurement_plan[i]]
    /\ UNCHANGED <<iteration_count, next_step, supervisor_instructions,
                   first_call, history, planned, fact_vars, llm_vars, cache_vars>>

WorkerReturn(update, name, content) ==
    /\ trip_data' = merge_trip_data(Some(trip_data), Some(update))
    /\ messages' = <<Message(name, content)>>
    /\ pc' = "supervisor"
    /\ UNCHANGED <<procurement_plan, iteration_count, next_step, supervisor_instructions,
                   first_call, history, planned, fact_vars, llm_vars, cache_vars>>

hotel_agent ==
    /\ pc = "hotel_agent"
    /\ \/ WorkerReturn([k \in {"hotel_agent_status"} |-> TextValue(<<"FAILURE">>)],
                       "hotel_agent", HotelFailureContent)
       \/ WorkerReturn(HotelUpdate(<<HotelItem(SeasideInn)>>), "hotel_agent", HotelFoundContent)
       \/ WorkerReturn(HotelUpdate(<<>>), "hotel_agent", HotelNoneContent)

search_agent ==
    /\ pc = "search_agent"
    /\ WorkerReturn(SearchUpdate, "search_agent", SearchDoneContent)

\* _get_specific_weather: the reports of the queried dates, or no location found
weather_agent ==
    /\ pc = "weather_agent"
    /\ \/ WorkerReturn(WeatherUpdate, "weather_agent", WeatherDoneContent)
       \/ WorkerReturn(<<>>, "weather_agent", WeatherNoLocationContent)

analyst_node ==
    /\ pc = "analyst"
    /\ messages' = <<Message("analyst", <<"[Analyst] report">>)>>
    /\ pc' = "final_responder"
    /\ UNCHANGED <<procurement_plan, trip_data, iteration_count, next_step,
                   supervisor_instructions, first_call, history, planned, fact_vars, llm_vars, cache_vars>>

final_responder ==
    /\ pc = "final_responder"
    /\ messages' = <<Message("", <<"final answer">>)>>
    /\ pc' = "END"
    /\ UNCHANGED <<procurement_plan, trip_data, iteration_count, next_step,
                   supervisor_instructions, first_call, history, planned, fact_vars, llm_vars, cache_vars>>

Next ==
    \/ on_message
    \/ planner_node
    \/ supervisor
    \/ hotel_agent
    \/ search_agent
    \/ weather_agent
    \/ analyst_node
    \/ final_responder

Spec == Init /\ [][Next]_vars

\* ------------------------------------------- the Fact Store written on its own
\* merge_trip_data applied to a store by a sequence of writes
SeqsUpTo(S, n) == UNION {[1..k -> S] : k \in 0..n}

\* records with an id (tests/test_state.py: golf_bookings) and plain values (tags)
GolfRecords ==
    {[id |-> "1", name |-> "A", address |-> "addr"], [id |-> "1", name |-> "B"],
     [id |-> "2", name |-> "A"]}

Tags == {Scalar("golf"), Scalar("hotel"), Scalar("logistics")}

OneKey(key, value) == [k \in {key} |-> value]

\* the trip_data a node returns: None, {}, one key with a list of records, of plain
\* values or a text, or a list of records together with a text
Writes ==
    {NoneDict, Some(<<>>), Some(OneKey("search_findings", TextValue(SearchResult)))}
    \cup {Some(OneKey("golf_bookings", ListValue(l))) : l \in SeqsUpTo(GolfRecords, MaxListLen)}
    \cup {Some(OneKey("tags", ListValue(l))) : l \in SeqsUpTo(Tags, MaxListLen)}
    \cup {Some([k \in {"golf_bookings", "search_query"} |->
                  IF k = "golf_bookings" THEN ListValue(<<r>>) ELSE TextValue(<<"query">>)]) :
           r \in GolfRecords}

\* what the store is before the first write
Stores ==
    {NoneDict, Some(<<>>),
     Some([k \in {"golf_bookings", "tags", "search_findings"} |->
             CASE k = "golf_bookings" ->
                     ListValue(<<[id |-> "1", name |-> "A", address |-> "addr"]>>)
               [] k = "tags" -> ListValue(<<Scalar("golf"), Scalar("hotel")>>)
               [] OTHER -> TextValue(<<"old">>)])}

MergeInit ==
    /\ fact_store \in Stores
    /\ fact_before = NoneDict
    /\ fact_update = NoneDict
    /\ fact_keys = DOMAIN OrEmpty(fact_store)
    /\ writes = 0
    /\ procurement_plan = <<>>
    /\ trip_data = <<>>
    /\ messages = <<>>
    /\ iteration_count = 0
    /\ next_step = ""
    /\ supervisor_instructions = None
    /\ pc = "MERGE"
    /\ first_call = TRUE
    /\ runnable = 0
    /\ dispatch_count = 0
    /\ supervisor_calls = 0
    /\ dispatched = {}
    /\ updated_plan = <<>>
    /\ start_data = <<>>
    /\ planned = <<>>
    /\ LlmIdle
    /\ CacheEmpty

\* the reducer call LangGraph makes for the trip_data a node returned
merge_write ==
    /\ writes < MaxWrites
    /\ \E w \in Writes :
          /\ fact_update' = w
          /\ fact_store' = Some(merge_trip_data(fact_store, w))
    /\ fact_before' = fact_store
    /\ fact_keys' = fact_keys \cup DOMAIN OrEmpty(fact_store')
    /\ writes' = writes + 1
    /\ UNCHANGED <<run_vars, llm_vars, cache_vars>>

MergeNext == merge_write

MergeSpec == MergeInit /\ [][MergeNext]_vars

\* the graph and the Fact Store of MergeSpec at rest
RunIdle ==
    /\ procurement_plan = <<>>
    /\ trip_data = <<>>
    /\ messages = <<>>
    /\ iteration_count = 0
    /\ next_step = ""
    /\ supervisor_instructions = None
    /\ pc = "IDLE"
    /\ first_call = TRUE
    /\ runnable = 0
    /\ dispatch_count = 0
    /\ supervisor_calls = 0
    /\ dispatched = {}
    /\ updated_plan = <<>>
    /\ start_data = <<>>
    /\ planned = <<>>

FactIdle ==
    /\ fact_store = NoneDict
    /\ fact_before = NoneDict
    /\ fact_update = NoneDict
    /\ fact_keys = {}
    /\ writes = 0

\* --------------------------------------------------- utils/llm_wrapper.py
MALFORMED_FINISH_REASONS == {"MALFORMED_FUNCTION_CALL", "OTHER"}

RETRY_PROMPT == "Your previous response contained a malformed function call."

AIMessage(content, finish_reason) == [content |-> content, finish_reason |-> finish_reason]

\* the responses a model gives: an answer, a malformed call without content, a
\* malformed call with some text, and an empty content list
Responses ==
    {AIMessage(<<"answer">>, "STOP"),
     AIMessage(<<>>, "MALFORMED_FUNCTION_CALL"),
     AIMessage(<<"partial">>, "OTHER"),
     AIMessage(<<>>, "STOP")}

\* finish_reason in MALFORMED_FINISH_REASONS, or content without text
_is_malformed_response(response) ==
    \/ response.finish_reason \in MALFORMED_FINISH_REASONS
    \/ response.content = <<>>

\* what a call of a model gives: a response, or an exception
Outcomes ==
    {[raised |-> FALSE, response |-> r] : r \in Responses}
    \cup {[raised |-> TRUE, response |-> AIMessage(<<>>, "")]}

\* _build_retry_messages: the input, the failed response if it has content, and
\* the retry prompt
_build_retry_messages(input, failed) ==
    input \o (IF Truthy(failed.content) THEN <<failed>> ELSE <<>>)
          \o <<AIMessage(<<RETRY_PROMPT>>, "")>>

\* current_messages of the loop; last_response is None until a response was kept
CurrentMessages(input, attempt_, last) ==
    IF attempt_ = 0 THEN input ELSE _build_retry_messages(input, last)

LlmInput == <<AIMessage(<<"question">>, "")>>

NoResponse == AIMessage(<<>>, "")

\* _create_fallback_response
_create_fallback_response ==
    AIMessage(<<"sorry, technical problem">>, "FALLBACK_AFTER_RETRIES")

LlmCall(model, sent, outcome) == [model |-> model, messages |-> sent, outcome |-> outcome]

LlmInit ==
    /\ llm_pc = "loop"
    /\ llm_mode \in {"invoke", "ainvoke"}
    /\ max_retries \in 0..MaxRetries
    /\ fallback_llm \in BOOLEAN
    /\ attempt = 0
    /\ last_response = NoResponse
    /\ llm_calls = <<>>
    /\ llm_result = NoResponse
    /\ RunIdle
    /\ FactIdle
    /\ CacheEmpty

\* one iteration of `for attempt in range(self.max_retries + 1)`
PrimaryAttempt ==
    /\ llm_pc = "loop"
    /\ attempt <= max_retries
    /\ \E outcome \in Outcomes :
          /\ llm_calls' = Append(llm_calls,
                LlmCall("llm", CurrentMessages(LlmInput, attempt, last_response), outcome))
          /\ IF outcome.raised
             THEN IF attempt >= max_retries
                  THEN /\ llm_pc' = "raised"
                       /\ UNCHANGED <<attempt, last_response, llm_result>>
                  ELSE /\ attempt' = attempt + 1
                       /\ UNCHANGED <<llm_pc, llm_result, last_response>>
             ELSE IF ~_is_malformed_response(outcome.response)
                  THEN /\ llm_pc' = "returned"
                       /\ llm_result' = outcome.response
                       /\ UNCHANGED <<attempt, last_response>>
                  ELSE /\ last_response' = outcome.response
                       /\ attempt' = attempt + 1
                       /\ UNCHANGED <<llm_pc, llm_result>>
    /\ UNCHANGED <<llm_mode, max_retries, fallback_llm>>

\* after the loop: the fallback model's one attempt
FallbackAttempt ==
    /\ llm_pc = "loop"
    /\ attempt > max_retries
    /\ fallback_llm
    /\ \E outcome \in Outcomes :
          /\ llm_calls' = Append(llm_calls, LlmCall("fallback_llm", LlmInput, outcome))
          /\ llm_result' =
                IF ~outcome.raised /\ ~_is_malformed_response(outcome.response)
                THEN outcome.response ELSE _create_fallback_response
    /\ llm_pc' = "returned"
    /\ UNCHANGED <<llm_mode, max_retries, fallback_llm, attempt, last_response>>

\* after the loop without a fallback model
GracefulFallback ==
    /\ llm_pc = "loop"
    /\ attempt > max_retries
    /\ ~fallback_llm
    /\ llm_result' = _create_fallback_response
    /\ llm_pc' = "returned"
    /\ UNCHANGED <<llm_mode, max_retries, fallback_llm, attempt, last_response, llm_calls>>

invoke ==
    /\ llm_mode = "invoke"
    /\ (PrimaryAttempt \/ FallbackAttempt \/ GracefulFallback)
    /\ UNCHANGED <<run_vars, fact_vars, cache_vars>>

ainvoke ==
    /\ llm_mode = "ainvoke"
    /\ (PrimaryAttempt \/ FallbackAttempt \/ GracefulFallback)
    /\ UNCHANGED <<run_vars, fact_vars, cache_vars>>

LlmNext ==
    \/ invoke
    \/ ainvoke

LlmSpec == LlmInit /\ [][LlmNext]_vars

\* ------------------------------------------------------- cache/manager.py
Threads == {"t1", "t2"}
Trips == {"A", "B"}

\* datetime.now().date(), in days
Today == 10
SESSION_CLEANUP_DAYS == 3

\* expires_after: None, a string that is no %Y-%m-%d date, the day four days
\* before today and the day three days before today
NoExpiry == [given |-> FALSE, text |-> ""]
BadDate == [given |-> TRUE, text |-> "soon"]
DateText(day) == [given |-> TRUE, text |-> ToString(day)]
ExpiresChoices == {NoExpiry, BadDate, DateText(Today - 4), DateText(Today - 3)}

\* datetime.strptime(expires_after, "%Y-%m-%d").date(): the day, or ValueError
strptime(text) ==
    LET days == {d \in 0..Today : ToString(d) = text}
    IN  IF days = {} THEN [error |-> TRUE, day |-> 0]
        ELSE [error |-> FALSE, day |-> CHOOSE d \in days : TRUE]

\* a dict with one more key, and a dict without a key
DictPut(dict, key, value) ==
    [k \in (DOMAIN dict) \cup {key} |-> IF k = key THEN value ELSE dict[k]]
DictPop(dict, keys) == [k \in (DOMAIN dict) \ keys |-> dict[k]]

CacheInit ==
    /\ CacheEmpty
    /\ RunIdle
    /\ FactIdle
    /\ LlmIdle

set_session ==
    /\ cache_ops < MaxCacheOps
    /\ \E thread_id \in Threads, trip_id \in Trips, expires_after \in ExpiresChoices :
          /\ _session_context' =
                DictPut(_session_context, thread_id,
                        [date |-> "d", trip_id |-> trip_id, customer_id |-> "c1",
                         expires_after |-> expires_after])
          /\ _trip_sessions' =
                DictPut(_trip_sessions, trip_id,
                        (IF trip_id \in DOMAIN _trip_sessions THEN _trip_sessions[trip_id]
                         ELSE {}) \cup {thread_id})
          /\ cache_trip' = trip_id
    /\ cache_op' = "set_session"
    /\ cache_ops' = cache_ops + 1
    /\ UNCHANGED <<run_vars, fact_vars, llm_vars>>

clear_session ==
    /\ cache_ops < MaxCacheOps
    /\ \E thread_id \in Threads :
          _session_context' = DictPop(_session_context, {thread_id})
    /\ cache_op' = "clear_session"
    /\ cache_trip' = ""
    /\ cache_ops' = cache_ops + 1
    /\ UNCHANGED <<_trip_sessions, run_vars, fact_vars, llm_vars>>

\* the two dicts after cleanup_trip for every trip of the set
CleanedContext(context, sessions, trips) ==
    DictPop(context, UNION {sessions[t] : t \in trips \cap DOMAIN sessions})

cleanup_trips(trips) ==
    /\ _session_context' = CleanedContext(_session_context, _trip_sessions, trips)
    /\ _trip_sessions' = DictPop(_trip_sessions, trips)

cleanup_trip ==
    /\ cache_ops < MaxCacheOps
    /\ \E trip_id \in Trips :
          /\ cleanup_trips({trip_id})
          /\ cache_trip' = trip_id
    /\ cache_op' = "cleanup_trip"
    /\ cache_ops' = cache_ops + 1
    /\ UNCHANGED <<run_vars, fact_vars, llm_vars>>

\* today > trip_end + SESSION_CLEANUP_DAYS for the context of the sampled thread
SampleExpired(context, thread_id) ==
    /\ thread_id \in DOMAIN context
    /\ context[thread_id].expires_after.given
    /\ ~strptime(context[thread_id].expires_after.text).error
    /\ Today > strptime(context[thread_id].expires_after.text).day + SESSION_CLEANUP_DAYS

\* next(iter(thread_ids)) is whichever thread the set yields first
cleanup_expired_sessions ==
    /\ cache_ops < MaxCacheOps
    /\ \E sample \in [DOMAIN _trip_sessions -> Threads] :
          /\ \A t \in DOMAIN _trip_sessions :
                _trip_sessions[t] # {} => sample[t] \in _trip_sessions[t]
          /\ cleanup_trips({t \in DOMAIN _trip_sessions :
                               /\ _trip_sessions[t] # {}
                               /\ SampleExpired(_session_context, sample[t])})
    /\ cache_op' = "cleanup_expired_sessions"
    /\ cache_trip' = ""
    /\ cache_ops' = cache_ops + 1
    /\ UNCHANGED <<run_vars, fact_vars, llm_vars>>

CacheNext ==
    \/ set_session
    \/ clear_session
    \/ cleanup_trip
    \/ cleanup_expired_sessions

CacheSpec == CacheInit /\ [][CacheNext]_vars

\* ======================================================================
\* Properties
\* ======================================================================
Workers == RouteTargets \ {"analyst"}

InTurn == pc \notin {"START", "planner"}

Handed == pc \in {"analyst", "final_responder", "END"}

DistinctIds(plan) == \A i, j \in DOMAIN plan : plan[i].id = plan[j].id => i = j

\* the slot an id names: the last slot of the plan that carries it (0 if none)
Named(plan, id) ==
    LET with == {i \in DOMAIN plan : plan[i].id = id}
    IN  IF with = {} THEN 0 ELSE CHOOSE i \in with : \A j \in with : j <= i

Reason == IF supervisor_instructions = <<>> THEN "" ELSE supervisor_instructions[1]
ReasonComplete == "data collection complete:"
ReasonDeadlock == "deadlock detected:"
ReasonCap == "max iterations reached"
ReasonWaiting == "waiting tasks may not have returned"

\* C1: whenever the supervisor has selected a slot for dispatch, every id in that
\* slot's dependencies names a slot of the plan whose status, in the plan as it
\* stands after the same pass's worker-result absorption and resync, is FILLED
\* (an id carried by several slots names the last of them, as the lookup does).
C1_DispatchOnlyWhenDepsFilled ==
    runnable # 0 =>
        /\ runnable \in DOMAIN updated_plan
        /\ next_step = updated_plan[runnable].source_agent
        /\ \A k \in DOMAIN updated_plan[runnable].dependencies :
              LET j == Named(updated_plan, updated_plan[runnable].dependencies[k])
              IN  j # 0 /\ updated_plan[j].status = "FILLED"

\* a slot with dependencies has just been routed to its worker
C1_Witness ==
    /\ runnable # 0
    /\ pc \in Workers
    /\ updated_plan[runnable].dependencies # <<>>

StatusStep(i) == <<procurement_plan[i].status, procurement_plan'[i].status>>

OwnId(plan, i) == \A j \in DOMAIN plan : plan[j].id = plan[i].id => j = i

C3_StatusMonotonic ==
    [][InTurn =>
          /\ \A i \in DOMAIN procurement_plan :
                /\ procurement_plan[i].status \in {"FILLED", "FAILED"}
                      => procurement_plan'[i].status = procurement_plan[i].status
                /\ procurement_plan[i].status = "DISPATCHED"
                      => procurement_plan'[i].status # "PENDING"
          /\ (pc = "supervisor" /\ runnable' # 0) => runnable' \notin dispatched]_vars

\* C4: in a turn at most 10 workers are dispatched, the supervisor runs at most 11
\* times, and its 11th run hands the turn to the analyst with the iteration-cap reason.
C4_IterationCap ==
    /\ dispatch_count <= MAX_ITERATIONS
    /\ supervisor_calls <= MAX_ITERATIONS + 1
    /\ (InTurn /\ supervisor_calls >= 1) => iteration_count = supervisor_calls
    /\ supervisor_calls = MAX_ITERATIONS + 1 =>
          /\ Handed
          /\ next_step = "analyst"
          /\ Reason = ReasonCap

\* the cap fired: the 11th pass has run after 10 dispatches
C4_Witness ==
    /\ supervisor_calls = MAX_ITERATIONS + 1
    /\ dispatch_count = MAX_ITERATIONS
    /\ DistinctIds(procurement_plan)
    /\ pc = "analyst"

\* slot b lists an id that names slot a
Lists(plan, b, a) ==
    \E k \in DOMAIN plan[b].dependencies : Named(plan, plan[b].dependencies[k]) = a

\* every dependency chain of slot b leads, in at most depth steps, to slot a
RECURSIVE LeadsOnlyTo(_, _, _, _)
LeadsOnlyTo(plan, b, a, depth) ==
    /\ depth > 0
    /\ b # a
    /\ plan[b].dependencies # <<>>
    /\ \A k \in DOMAIN plan[b].dependencies :
          LET j == Named(plan, plan[b].dependencies[k])
          IN  j = a \/ (j # 0 /\ LeadsOnlyTo(plan, j, a, depth - 1))

SomeFailed(plan) == \E i \in DOMAIN plan : plan[i].status = "FAILED"

DependsOn(plan, b, a) ==
    \E k \in DOMAIN plan[b].dependencies : plan[b].dependencies[k] = plan[a].id

\* the slots reachable from the slots of from in 1..steps dependency steps
RECURSIVE Reach(_, _, _)
Reach(plan, from, steps) ==
    IF steps = 0 THEN {}
    ELSE LET next == {a \in DOMAIN plan : \E b \in from : DependsOn(plan, b, a)}
         IN  next \cup Reach(plan, next, steps - 1)

OnCycle(plan, i) == i \in Reach(plan, {i}, Len(plan))

\* the slot's field is already in the Fact Store: the resync would fill the slot
FieldStored(data, slot) ==
    LET f == SyncField(slot.field_name)
    IN  f # "" /\ ValueTruthy(Get(data, FIELD_TO_TRIP_DATA_key(f)))

\* the turn has run a pass over a plan whose slots all lie on dependency cycles and
\* whose fields were not in the Fact Store when the turn started
CyclePlanRun ==
    /\ InTurn
    /\ supervisor_calls >= 1
    /\ procurement_plan # <<>>
    /\ \A i \in DOMAIN procurement_plan :
          /\ OnCycle(procurement_plan, i)
          /\ ~FieldStored(start_data, procurement_plan[i])

\* C6: for a plan whose slots form a dependency cycle (a slot that lists itself
\* included) and whose fields are not in the Fact Store, the first supervisor pass
\* dispatches nothing and routes to the analyst with the deadlock reason; no slot is
\* ever dispatched, every slot stays PENDING and the supervisor is not entered again.
C6_CycleDeadlocksInOnePass ==
    CyclePlanRun =>
        /\ supervisor_calls = 1
        /\ dispatch_count = 0
        /\ dispatched = {}
        /\ runnable = 0
        /\ Handed
        /\ next_step = "analyst"
        /\ Reason = ReasonDeadlock
        /\ \A i \in DOMAIN procurement_plan : procurement_plan[i].status = "PENDING"

\* the pass over a two-slot cycle has handed the turn to the analyst
C6_Witness ==
    /\ CyclePlanRun
    /\ Len(procurement_plan) = 2
    /\ DependsOn(procurement_plan, 1, 2)
    /\ DependsOn(procurement_plan, 2, 1)
    /\ pc = "analyst"

\* C7: a supervisor entered at the start of a turn with a plan of zero slots
\* dispatches no worker and routes to the analyst in that same pass with the
\* completion reason ("plan is empty").
C7_EmptyPlanCompletes ==
    (InTurn /\ supervisor_calls >= 1 /\ procurement_plan = <<>>) =>
        /\ supervisor_calls = 1
        /\ dispatch_count = 0
        /\ runnable = 0
        /\ Handed
        /\ next_step = "analyst"
        /\ supervisor_instructions = <<ReasonComplete, "plan is empty">>

\* the pass over the empty plan has handed the turn to the analyst
C7_Witness ==
    /\ procurement_plan = <<>>
    /\ supervisor_calls = 1
    /\ pc = "analyst"

\* sub occurs in text as a run of consecutive pieces
Contains(text, sub) ==
    \E i \in 0..(Len(text) - Len(sub)) : SubSeq(text, i + 1, i + Len(sub)) = sub

\* the two-slot plan [S1 without dependencies, S2 of the search worker depending on
\* S1] in a turn that started with a Fact Store holding only the customer
TwoSlotPlan ==
    /\ InTurn
    /\ DOMAIN start_data = {"customer"}
    /\ Len(procurement_plan) = 2
    /\ procurement_plan[1].id # procurement_plan[2].id
    /\ procurement_plan[1].dependencies = <<>>
    /\ procurement_plan[2].dependencies = <<procurement_plan[1].id>>
    /\ procurement_plan[2].source_agent = "search_agent"

\* no worker signalled a failure and the hotel worker, if it ran, found a booking
WorkersSucceeded ==
    /\ "hotel_agent_status" \notin DOMAIN trip_data
    /\ "hotel_bookings" \in DOMAIN trip_data => ValueTruthy(trip_data["hotel_bookings"])

\* what the worker of S1 wrote, as a slot value
WrittenValue(slot) ==
    IF slot.source_agent = "hotel_agent" THEN SeasideInn ELSE Take(SearchResult, 5)

C10_FailureDeadlocks ==
    (TwoSlotPlan /\ "hotel_agent_status" \in DOMAIN trip_data /\ supervisor_calls >= 2) =>
        /\ supervisor_calls = 2
        /\ procurement_plan[1].status = "FAILED"
        /\ procurement_plan[2].status = "PENDING"
        /\ dispatched = {1}
        /\ runnable = 0
        /\ Handed
        /\ next_step = "analyst"
        /\ Reason = ReasonDeadlock

\* S1's worker has failed and the next pass has handed the turn to the analyst
C10_Witness ==
    /\ TwoSlotPlan
    /\ "hotel_agent_status" \in DOMAIN trip_data
    /\ procurement_plan[1].status = "FAILED"
    /\ pc = "analyst"

\* ------------------------------------------------------------ the Fact Store
\* the last write merged two lists under the key
Merged(key) ==
    /\ writes > 0
    /\ ~fact_update.none
    /\ key \in DOMAIN fact_update.dict
    /\ fact_update.dict[key].list
    /\ key \in DOMAIN OrEmpty(fact_before)
    /\ OrEmpty(fact_before)[key].list

OldList(key) == OrEmpty(fact_before)[key].items
UpdList(key) == fact_update.dict[key].items
NewList(key) == fact_store.dict[key].items

\* the update records merged into position i: those with the id of old[i], when
\* no later record of old carries that id
Targets(old, upd, i) ==
    {j \in DOMAIN upd :
        /\ HasId(upd[j])
        /\ HasId(old[i])
        /\ upd[j].id = old[i].id
        /\ \A k \in DOMAIN old : k > i => ~(HasId(old[k]) /\ old[k].id = old[i].id)}

Largest(S) == CHOOSE j \in S : \A k \in S : k <= j

\* field f of position i after the merge: the last targeting record with the
\* field wins, else the old value
FieldAfter(old, upd, i, f) ==
    IF \E j \in Targets(old, upd, i) : f \in DOMAIN upd[j]
    THEN upd[Largest({j \in Targets(old, upd, i) : f \in DOMAIN upd[j]})][f]
    ELSE old[i][f]

FieldMerge(old, upd, new) ==
    /\ Len(new) >= Len(old)
    /\ \A i \in DOMAIN old :
          /\ DOMAIN new[i] =
                (DOMAIN old[i]) \cup UNION {DOMAIN upd[j] : j \in Targets(old, upd, i)}
          /\ \A f \in DOMAIN new[i] : new[i][f] = FieldAfter(old, upd, i, f)
    /\ (\A j \in DOMAIN upd : \E i \in DOMAIN old : j \in Targets(old, upd, i))
          => Len(new) = Len(old)

\* C11: when current and update both hold a list under a key, an update record
\* with the id of an existing record leaves the length of the list unchanged,
\* overwrites exactly the fields it carries and keeps every other field of the
\* existing record.
C11_UpsertByIdMergesFields ==
    \A key \in DOMAIN OrEmpty(fact_update) :
        Merged(key) => FieldMerge(OldList(key), UpdList(key), NewList(key))

C11_Witness ==
    /\ Merged("golf_bookings")
    /\ OldList("golf_bookings") = <<[id |-> "1", name |-> "A", address |-> "addr"]>>
    /\ UpdList("golf_bookings") = <<[id |-> "1", name |-> "B"]>>
    /\ NewList("golf_bookings") = <<[id |-> "1", name |-> "B", address |-> "addr"]>>

AllRecords(list) == \A i \in DOMAIN list : HasId(list[i])

IsNew(old, x) == \A i \in DOMAIN old : ~(HasId(old[i]) /\ old[i].id = x.id)

\* the ids of upd that no record of old carries, each once, in the order of their
\* first occurrence
RECURSIVE AppendedIds(_, _, _)
AppendedIds(old, upd, acc) ==
    IF upd = <<>> THEN acc
    ELSE IF IsNew(old, Head(upd)) /\ \A k \in DOMAIN acc : acc[k] # Head(upd).id
    THEN AppendedIds(old, Tail(upd), Append(acc, Head(upd).id))
    ELSE AppendedIds(old, Tail(upd), acc)

AppendsNew(old, upd, new, ids) ==
    /\ Len(new) = Len(old) + Len(ids)
    /\ \A i \in DOMAIN old : new[i].id = old[i].id
    /\ \A p \in DOMAIN ids :
          /\ new[Len(old) + p].id = ids[p]
          /\ \A j \in DOMAIN upd :
                (upd[j].id = ids[p] /\ \A k \in DOMAIN upd : upd[k].id = ids[p] => k = j)
                    => new[Len(old) + p] = upd[j]

\* the last write put a value under a key the store did not have
FirstWrite(key) ==
    /\ writes > 0
    /\ ~fact_update.none
    /\ key \in DOMAIN fact_update.dict
    /\ key \notin DOMAIN OrEmpty(fact_before)

\* C12: an update record whose id no existing record carries is appended after
\* all existing records: existing records keep their positions, the new records
\* follow in the order of the update, the length grows by the number of distinct
\* new ids; a key the store does not hold yet receives the update's list as it is.
C12_NewIdsAppendedInOrder ==
    \A key \in DOMAIN OrEmpty(fact_update) :
        /\ (Merged(key) /\ AllRecords(OldList(key)) /\ AllRecords(UpdList(key)))
              => AppendsNew(OldList(key), UpdList(key), NewList(key),
                            AppendedIds(OldList(key), UpdList(key), <<>>))
        /\ FirstWrite(key) => fact_store.dict[key] = fact_update.dict[key]

C12_Witness ==
    /\ Merged("golf_bookings")
    /\ OldList("golf_bookings") = <<[id |-> "1", name |-> "A", address |-> "addr"]>>
    /\ UpdList("golf_bookings") = <<[id |-> "1", name |-> "B"], [id |-> "2", name |-> "A"]>>
    /\ NewList("golf_bookings") =
          <<[id |-> "1", name |-> "B", address |-> "addr"], [id |-> "2", name |-> "A"]>>

AllScalars(list) == \A i \in DOMAIN list : ~HasId(list[i])

Elements(list) == {list[i] : i \in DOMAIN list}

AppendIfAbsent(old, upd, new) ==
    /\ Elements(new) = Elements(old) \cup Elements(upd)
    /\ Len(new) = Len(old) + Cardinality(Elements(upd) \ Elements(old))
    /\ \A i \in DOMAIN old : new[i] = old[i]

\* C13: for a key holding a list of plain values the merged list holds every
\* element of the current list and of the update list, an update element that is
\* already present is not added again, and the current elements keep their order.
C13_ScalarListSetSemantics ==
    \A key \in DOMAIN OrEmpty(fact_update) :
        (Merged(key) /\ AllScalars(OldList(key)) /\ AllScalars(UpdList(key)))
            => AppendIfAbsent(OldList(key), UpdList(key), NewList(key))

C13_Witness ==
    /\ Merged("tags")
    /\ OldList("tags") = <<Scalar("golf"), Scalar("hotel")>>
    /\ UpdList("tags") = <<Scalar("hotel"), Scalar("logistics")>>
    /\ NewList("tags") = <<Scalar("golf"), Scalar("hotel"), Scalar("logistics")>>

\* C14: merge_trip_data takes a missing side as empty: with current None the
\* result is exactly the update's content, with update None the result is
\* current (the empty dict when current is None as well).
C14_NoneSideIsEmpty ==
    writes > 0 =>
        /\ ~fact_store.none
        /\ (fact_before.none /\ ~fact_update.none) => fact_store.dict = fact_update.dict
        /\ fact_update.none => fact_store.dict = OrEmpty(fact_before)

C14_Witness ==
    /\ writes = 1
    /\ fact_before.none
    /\ fact_update = Some(OneKey("golf_bookings", ListValue(<<[id |-> "2", name |-> "A"]>>)))
    /\ fact_store = fact_update

\* ---------------------------------------------------- the supervisor, continued
\* the worker of the slot dispatched by the previous pass has reported a failure
FailedLastRound ==
    /\ pc = "supervisor"
    /\ runnable # 0
    /\ messages # <<>>
    /\ messages[Len(messages)].name = procurement_plan[runnable].source_agent
    /\ IsFailureContent(messages[Len(messages)].content)

SameTarget(a, b) == a.source_agent = b.source_agent /\ a.field_name = b.field_name

\* no id twice and every dependency names a slot of the plan
WellFormed(plan) ==
    /\ DistinctIds(plan)
    /\ \A i \in DOMAIN plan : \A k \in DOMAIN plan[i].dependencies :
          Named(plan, plan[i].dependencies[k]) # 0

\* C15: after a worker has reported a failure, the next pass does not dispatch a
\* slot with the same source_agent and the same field_name as the slot that
\* failed; it routes to the analyst instead. Stated for plans with distinct ids and
\* no dangling dependency.
C15_NoRedispatchAfterFailure ==
    [][(WellFormed(procurement_plan) /\ FailedLastRound) =>
          runnable' = 0 \/ ~SameTarget(procurement_plan'[runnable'], procurement_plan[runnable])]_vars

\* C16: a plan with a dependency id that names no slot, or with an id carried by
\* two slots, is rejected when it is loaded: the supervisor never runs a pass over
\* such a plan.
C16_MalformedPlanRejected ==
    (InTurn /\ supervisor_calls >= 1) => WellFormed(procurement_plan)

\* C17: the planner step stores exactly the plan planner_node returned, whatever
\* its number of slots: every slot PENDING with value None, no _replace marker,
\* no slot of the previous turn's plan left.
C17_PlanFullyReplaced ==
    [][pc = "planner" =>
          /\ Len(procurement_plan') = Len(planned')
          /\ \A i \in DOMAIN procurement_plan' :
                /\ procurement_plan'[i] = StripReplace(planned'[i])
                /\ procurement_plan'[i].status = "PENDING"
                /\ procurement_plan'[i].value = None
                /\ "_replace" \notin DOMAIN procurement_plan'[i]]_vars

\* C18: in every reachable state at most one slot of the plan is DISPATCHED (each
\* pass of the supervisor dispatches one slot or hands off, and the slot it
\* dispatched leaves DISPATCHED on the next pass).
C18_AtMostOneDispatched == Count(procurement_plan, "DISPATCHED") <= 1

KeepsElements(old, new) ==
    /\ Len(new) >= Len(old)
    /\ \A i \in DOMAIN old :
          IF HasId(old[i])
          THEN HasId(new[i]) /\ new[i].id = old[i].id /\ DOMAIN old[i] \subseteq DOMAIN new[i]
          ELSE new[i] = old[i]

\* C20: under the writes of the workers the Fact Store only grows: every key that
\* was ever present is still present, and a write to a key that holds a list
\* removes no stored record or element and does not replace the list.
C20_FactStoreAppendOnly ==
    /\ fact_keys \subseteq DOMAIN OrEmpty(fact_store)
    /\ writes > 0 =>
          \A key \in DOMAIN OrEmpty(fact_before) :
              OrEmpty(fact_before)[key].list =>
                  /\ fact_store.dict[key].list
                  /\ KeepsElements(OldList(key), NewList(key))

\* two writes in a row, the second one appending a record to a list that the
\* first one had written to
C20_Witness ==
    /\ writes = 2
    /\ fact_keys = {"golf_bookings", "tags", "search_findings", "search_query"}
    /\ Merged("golf_bookings")
    /\ Len(OldList("golf_bookings")) >= 1
    /\ Len(NewList("golf_bookings")) > Len(OldList("golf_bookings"))

\* ------------------------------------------------ the scheduler's decisions
\* a pass of the supervisor that gets past the safety threshold, and so absorbs
\* the worker's result and resyncs
AbsorbingPass == pc = "supervisor" /\ ~CapReached(iteration_count)

NoneOpen(plan) == Count(plan, "PENDING") = 0 /\ Count(plan, "DISPATCHED") = 0

ReasonOf(instructions) == IF instructions = <<>> THEN "" ELSE instructions[1]

\* C21: a pass after whose absorption and resync no slot is PENDING or DISPATCHED
\* routes to the analyst with the completion reason, dispatching nothing, for
\* plans of every size; and a pass reports the completion reason only then.
C21_CompleteIffNoneOpen ==
    [][pc = "supervisor" =>
          /\ (AbsorbingPass /\ NoneOpen(updated_plan')) =>
                /\ ReasonOf(supervisor_instructions') = ReasonComplete
                /\ next_step' = "analyst"
                /\ runnable' = 0
                /\ procurement_plan' = updated_plan'
          /\ ReasonOf(supervisor_instructions') = ReasonComplete =>
                AbsorbingPass /\ NoneOpen(updated_plan') /\ NoneOpen(procurement_plan')]_vars

\* a three-slot plan completed after dispatches: the pass that absorbed the last
\* worker's result has handed the turn over with the completion reason
C21_Witness ==
    /\ pc = "analyst"
    /\ Reason = ReasonComplete
    /\ Len(procurement_plan) = 3
    /\ dispatch_count >= 2
    /\ NoneOpen(procurement_plan)
    /\ \E i \in DOMAIN procurement_plan : procurement_plan[i].status = "FAILED"

\* every dependency of slot i names a slot of the plan that is FILLED
Eligible(plan, i) ==
    /\ plan[i].status = "PENDING"
    /\ \A k \in DOMAIN plan[i].dependencies :
          /\ Named(plan, plan[i].dependencies[k]) # 0
          /\ plan[Named(plan, plan[i].dependencies[k])].status = "FILLED"

Stuck(plan) ==
    /\ Count(plan, "PENDING") > 0
    /\ Count(plan, "DISPATCHED") = 0
    /\ \A i \in DOMAIN plan : ~Eligible(plan, i)

\* C22: a pass reports the deadlock reason exactly when, after absorption and
\* resync, some slot is PENDING, none is DISPATCHED and no PENDING slot has all its
\* dependencies FILLED; it dispatches nothing, and the plan handed to the analyst
\* holds the updates absorbed in that pass.
C22_DeadlockIffStuck ==
    [][pc = "supervisor" =>
          /\ (AbsorbingPass /\ Stuck(updated_plan')) =>
                ReasonOf(supervisor_instructions') = ReasonDeadlock
          /\ ReasonOf(supervisor_instructions') = ReasonDeadlock =>
                /\ AbsorbingPass
                /\ Stuck(updated_plan')
                /\ next_step' = "analyst"
                /\ runnable' = 0
                /\ procurement_plan' = updated_plan'
                /\ \A i \in DOMAIN procurement_plan :
                      (procurement_plan[i].status = "DISPATCHED"
                       /\ OwnId(procurement_plan, i)
                       /\ messages[Len(messages)].name = procurement_plan[i].source_agent)
                          => procurement_plan'[i].status \in {"FILLED", "FAILED"}]_vars

\* the pass that absorbed a failure found the rest of the plan stuck: the FAILED
\* slot is in the plan handed to the analyst
C22_Witness ==
    /\ pc = "analyst"
    /\ Reason = ReasonDeadlock
    /\ dispatch_count >= 1
    /\ \E i \in DOMAIN procurement_plan :
          /\ procurement_plan[i].status = "FAILED"
          /\ updated_plan[i].status = "FAILED"
    /\ \E i \in DOMAIN procurement_plan : procurement_plan[i].status = "PENDING"

\* C23: the slot a pass dispatches is, in the plan after absorption and resync, a
\* PENDING slot whose dependencies are all FILLED, and no such slot stands
\* earlier in the plan; the pass routes to that slot's source_agent.
C23_FirstEligibleDispatched ==
    [][(pc = "supervisor" /\ runnable' # 0) =>
          /\ runnable' \in DOMAIN updated_plan'
          /\ Eligible(updated_plan', runnable')
          /\ \A j \in 1..(runnable' - 1) : ~Eligible(updated_plan', j)
          /\ next_step' = updated_plan'[runnable'].source_agent]_vars

\* slot 2 is dispatched: slot 1 is PENDING but waits for a dependency, and slot 3,
\* which is eligible too, stands later in the plan
C23_Witness ==
    /\ pc \in Workers
    /\ Len(updated_plan) = 3
    /\ runnable = 2
    /\ updated_plan[1].status = "PENDING"
    /\ Eligible(updated_plan, 3)
    /\ DistinctIds(updated_plan)

\* the slot's field maps, exactly or through _normalize_field_name, to data that
\* trip_data holds and from which a value can be extracted
Present(slot, trip_data_) ==
    /\ SyncField(slot.field_name) # ""
    /\ ValueTruthy(Get(trip_data_, FIELD_TO_TRIP_DATA_key(SyncField(slot.field_name))))
    /\ Truthy(FIELD_TO_TRIP_DATA_extract(SyncField(slot.field_name),
                Get(trip_data_, FIELD_TO_TRIP_DATA_key(SyncField(slot.field_name)))))

\* str(value)[:500]
Extracted(slot, trip_data_) ==
    Take(FIELD_TO_TRIP_DATA_extract(SyncField(slot.field_name),
            Get(trip_data_, FIELD_TO_TRIP_DATA_key(SyncField(slot.field_name)))), 5)

C25_PlanContinuesPastFailure ==
    [][pc = "supervisor" =>
          /\ \A i \in DOMAIN procurement_plan' :
                (i \in DOMAIN procurement_plan
                 /\ procurement_plan[i].status # "FAILED"
                 /\ procurement_plan'[i].status = "FAILED") =>
                    /\ Truthy(procurement_plan'[i].value)
                    /\ procurement_plan'[i].value[1] = "failed:"
          /\ (/\ AbsorbingPass
              /\ Count(updated_plan', "FAILED") > 0
              /\ \E j \in DOMAIN updated_plan' : Eligible(updated_plan', j)) =>
                /\ runnable' # 0
                /\ Eligible(updated_plan', runnable')
                /\ next_step' = updated_plan'[runnable'].source_agent
                /\ pc' \in Workers]_vars

\* the pass that marked slot 1 FAILED has dispatched slot 2
C25_Witness ==
    /\ pc \in Workers
    /\ supervisor_calls = 2
    /\ DistinctIds(procurement_plan)
    /\ Len(procurement_plan) >= 2
    /\ procurement_plan[1].status = "FAILED"
    /\ procurement_plan[1].value[1] = "failed:"
    /\ runnable = 2
    /\ procurement_plan[2].status = "DISPATCHED"

\* a dependency of slot i names a slot whose value the value-sanity guard takes
\* for invalid: the 'acquired but unusable' message or a placeholder
InvalidDep(plan, i) ==
    \E k \in DOMAIN plan[i].dependencies :
        /\ Named(plan, plan[i].dependencies[k]) # 0
        /\ Truthy(plan[Named(plan, plan[i].dependencies[k])].value)
        /\ IsInvalidValue(plan[Named(plan, plan[i].dependencies[k])].value)

IsAbort(instructions) == instructions # <<>> /\ instructions[1] = "[ABORT]"

\* C26: whatever the source_agent of the selected slot, when one of its
\* dependencies holds the 'acquired but unusable' message or a placeholder, the
\* instruction the supervisor emits is an [ABORT] instruction.
C26_InvalidDependencyAborts ==
    [][(pc = "supervisor" /\ runnable' # 0 /\ InvalidDep(updated_plan', runnable'))
          => IsAbort(supervisor_instructions')]_vars

\* C27: when the value-sanity guard rejects a dependency value of the selected
\* slot, the pass does not route to the slot's source_agent: no worker runs for
\* the slot.
C27_AbortSpendsNoWorkerCall ==
    [][(pc = "supervisor" /\ IsAbort(supervisor_instructions'))
          => (pc' \notin Workers /\ next_step' \notin Workers)]_vars

\* slot i lists a dependency id that no slot of the plan carries
Dangling(plan, i) ==
    \E k \in DOMAIN plan[i].dependencies : Named(plan, plan[i].dependencies[k]) = 0

OnlyDanglingPending(plan) ==
    /\ Count(plan, "PENDING") > 0
    /\ Count(plan, "DISPATCHED") = 0
    /\ \A i \in DOMAIN plan : plan[i].status = "PENDING" => Dangling(plan, i)

\* C28: a slot with a dependency id that names no slot is never dispatched, and a
\* turn that ends with only such slots PENDING and none DISPATCHED ends with the
\* deadlock reason, the slots still in the plan.
C28_DanglingDependencyDeadlocks ==
    InTurn =>
        /\ \A i \in dispatched : ~Dangling(procurement_plan, i)
        /\ (Handed /\ OnlyDanglingPending(procurement_plan)) =>
              /\ Reason = ReasonDeadlock
              /\ next_step = "analyst"
              /\ Len(procurement_plan) = Len(planned)

\* slot 1 was fetched; the slot left PENDING waits for an id that names no slot,
\* and the turn has ended with the deadlock reason
C28_Witness ==
    /\ pc = "analyst"
    /\ dispatch_count >= 1
    /\ OnlyDanglingPending(procurement_plan)
    /\ Count(procurement_plan, "FILLED") >= 1
    /\ Reason = ReasonDeadlock

\* C29: iteration_count is 0 when a turn starts and is incremented once per
\* dispatch and at no other time: at every point of the turn it is the number of
\* slots dispatched so far.
C29_CounterCountsDispatches ==
    /\ pc = "planner" => iteration_count = 0
    /\ InTurn => iteration_count = dispatch_count

\* C29 (amended): iteration_count is 0 when a turn starts and is incremented once
\* per supervisor pass, the pass that ends the turn included: up to that pass it is
\* the number of slots dispatched so far, after it that number plus one.
C29_CounterCountsPasses ==
    /\ pc = "planner" => iteration_count = 0
    /\ InTurn => iteration_count = supervisor_calls
    /\ (InTurn /\ ~Handed) => iteration_count = dispatch_count
    /\ Handed => iteration_count = dispatch_count + 1

\* a turn of a session that had counted passes before: two slots were dispatched
\* and the third pass has ended the turn
C29_Witness ==
    /\ Handed
    /\ start_data # <<>>
    /\ DOMAIN start_data # {"customer"}
    /\ dispatch_count = 2
    /\ iteration_count = 3

\* C30: in every reachable state a slot's value is set only if its status is
\* FILLED: PENDING, DISPATCHED and FAILED slots have value None.
C30_ValueOnlyOnFilled ==
    \A i \in DOMAIN procurement_plan :
        Truthy(procurement_plan[i].value) => procurement_plan[i].status = "FILLED"

\* the value of a FAILED slot: f"失败: {last_msg_content[:100]}"
IsDiagnostic(value) == Len(value) = 2 /\ value[1] = "failed:"

\* C30 (amended): in every reachable state a PENDING slot has value None, a FILLED
\* slot has a non-empty value, a FAILED slot has the failure diagnostic as its
\* value, and a DISPATCHED slot whose id no other slot carries has value None.
C30_ValueFollowsStatus ==
    \A i \in DOMAIN procurement_plan :
        LET slot == procurement_plan[i]
        IN  /\ slot.status = "PENDING" => slot.value = None
            /\ slot.status = "FILLED" => Truthy(slot.value)
            /\ slot.status = "FAILED" => IsDiagnostic(slot.value)
            /\ (slot.status = "DISPATCHED" /\ OwnId(procurement_plan, i))
                  => slot.value = None

\* a plan of slots with ids of their own holding a FAILED slot with its
\* diagnostic, a FILLED slot and a DISPATCHED slot without a value
C30_Witness ==
    /\ InTurn
    /\ WellFormed(procurement_plan)
    /\ \E i, j, k \in DOMAIN procurement_plan :
          /\ procurement_plan[i].status = "FAILED"
          /\ IsDiagnostic(procurement_plan[i].value)
          /\ procurement_plan[j].status = "FILLED"
          /\ Truthy(procurement_plan[j].value)
          /\ procurement_plan[k].status = "DISPATCHED"
          /\ procurement_plan[k].value = None

\* every FILLED slot of the plan carries a non-empty value
FilledHaveValues(plan) ==
    \A i \in DOMAIN plan : plan[i].status = "FILLED" => Truthy(plan[i].value)

\* the dependencies of the slot, as _hydrate_instruction looks them up
DepSlots(plan, i) ==
    {IdToSlot(plan, plan[i].dependencies[k]) : k \in DOMAIN plan[i].dependencies}

\* C31: in every reachable state every FILLED slot carries a non-empty value, the
\* extracted fact or the sentinel, whether a worker's result or the resync filled
\* it; so _hydrate_instruction never meets a FILLED dependency with an empty value.
C31_FilledSlotsHaveValues ==
    /\ FilledHaveValues(procurement_plan)
    /\ FilledHaveValues(updated_plan)
    /\ (pc \in Workers /\ runnable # 0) =>
          \A j \in DepSlots(updated_plan, runnable) :
              j # 0 /\ updated_plan[j].status = "FILLED" /\ Truthy(updated_plan[j].value)

\* a slot was hydrated from a dependency that holds the sentinel, while another
\* slot was filled by the resync without ever being dispatched
C31_Witness ==
    /\ pc \in Workers
    /\ runnable # 0
    /\ \E j \in DepSlots(updated_plan, runnable) :
          j # 0 /\ updated_plan[j].value = FallbackMsg(updated_plan[j])
    /\ \E i \in DOMAIN procurement_plan :
          /\ i \notin dispatched
          /\ OwnId(procurement_plan, i)
          /\ procurement_plan[i].status = "FILLED"

\* C32: every next_step the supervisor emits is a node of the graph's routing
\* table (one of the seven workers or analyst), for every plan the planner can
\* produce, so routing out of the supervisor never raises.
C32_NextStepRegistered ==
    /\ pc # "ERROR"
    /\ (InTurn /\ supervisor_calls >= 1) => next_step \in RouteTargets
\* the dependencies of the slot that carry a valid value
ValidDeps(plan, i) ==
    {j \in DepSlots(plan, i) : j # 0 /\ ~IsInvalidValue(plan[j].value)}

\* C33: for every dispatched slot that has at least one dependency with a valid
\* value, the hydrated instruction is an [ABORT] instruction or contains the value
\* of at least one of its dependencies, whatever the slot's source_agent and the
\* dependencies' field names.
C33_InstructionCarriesDependency ==
    (pc \in Workers /\ runnable # 0 /\ ValidDeps(updated_plan, runnable) # {}) =>
        \/ IsAbort(supervisor_instructions)
        \/ \E j \in DepSlots(updated_plan, runnable) :
              /\ j # 0
              /\ Truthy(updated_plan[j].value)
              /\ Contains(supervisor_instructions, updated_plan[j].value)
\* the value _sync_with_trip_data stores for a PENDING slot with the field_name of
\* the slot (None when it stores nothing)
SyncValue(slot, trip_data_) ==
    LET updates == _sync_with_trip_data(<<[slot EXCEPT !.status = "PENDING"]>>, trip_data_)
    IN  IF updates = <<>> THEN None ELSE updates[1].value

\* C34: when a worker succeeds, the value recorded on the dispatched slot is the
\* Fact Store's value for the slot's own field_name: the value stored by
\* _handle_worker_result equals the value _sync_with_trip_data would store for a
\* PENDING slot with the same field_name over the same trip_data.
C34_WorkerValueIsFieldValue ==
    [][(pc = "supervisor" /\ ~CapReached(iteration_count)) =>
        \A i \in DOMAIN procurement_plan :
            (/\ OwnId(procurement_plan, i)
             /\ procurement_plan[i].status = "DISPATCHED"
             /\ procurement_plan'[i].status = "FILLED"
             /\ procurement_plan'[i].value # FallbackMsg(procurement_plan[i]))
            => procurement_plan'[i].value = SyncValue(procurement_plan[i], trip_data)]_vars
\* C35: whenever the supervisor hands the turn to the analyst, for any terminal
\* reason, the result of every worker that has returned has been absorbed: no slot
\* whose worker has returned is still DISPATCHED in the plan the analyst reads.
C35_ReturnedResultsAbsorbed ==
    (Handed /\ WellFormed(procurement_plan)) =>
        \A i \in dispatched : procurement_plan[i].status # "DISPATCHED"

\* what a supervisor update leaves alone in a slot
Frame(slot) ==
    <<slot.id, slot.field_name, slot.description, slot.source_agent, slot.dependencies>>

SameSlots(plan, produced) ==
    /\ Len(plan) = Len(produced)
    /\ \A i \in DOMAIN plan : Frame(plan[i]) = Frame(produced[i])

\* an update for an id that no slot carries changes nothing
UnknownIdIgnored(plan) ==
    update_procurement_plan(plan, <<[id |-> DanglingId, status |-> "FILLED",
                                     value |-> <<"x">>]>>) = plan

\* C36: a supervisor update of the procurement_plan never adds, removes or reorders
\* slots and changes only the status and value of the slots it names: at the end
\* of the turn every slot's id, field_name, description, source_agent and
\* dependencies are those of the plan the planner produced, and an update for an
\* unknown id is ignored.
C36_SlotsAsPlanned ==
    Handed => (SameSlots(procurement_plan, planned) /\ UnknownIdIgnored(procurement_plan))

\* C37: a supervisor step leaves the Fact Store unchanged: within a turn trip_data is
\* modified only by worker steps, never by supervisor_node, planner_node,
\* analyst_node or final_responder.
C37_OnlyWorkersWriteFactStore ==
    [][/\ pc \in {"planner", "supervisor", "analyst", "final_responder"}
          => trip_data' = trip_data
       /\ ((pc = "planner" \/ InTurn) /\ trip_data' # trip_data) => pc \in Workers]_vars

\* a turn has ended after two supervisor passes or more, and the Fact Store is not
\* the one the turn started with
C37_Witness ==
    /\ pc = "END"
    /\ supervisor_calls >= 2
    /\ trip_data # start_data

\* C38: control flow of a turn is planner, then supervisor, then a strict
\* alternation of one worker and the supervisor, then analyst, then
\* final_responder, then END: every worker returns to the supervisor, the
\* supervisor routes to a worker or to the analyst and never to END, and analyst
\* and final_responder each run once, for every terminal reason.
C38_ControlFlow ==
    [][/\ pc = "planner" => pc' = "supervisor"
       /\ pc = "supervisor" => pc' \in Workers \cup {"analyst"}
       /\ pc \in Workers => pc' = "supervisor"
       /\ pc = "analyst" => pc' = "final_responder"
       /\ pc = "final_responder" => pc' = "END"]_vars

\* the calls made to a model so far
CallsTo(model) == {i \in DOMAIN llm_calls : llm_calls[i].model = model}

\* a call that raised or gave a malformed response
FailedCall(call) == call.outcome.raised \/ _is_malformed_response(call.outcome.response)

\* every one of the max_retries + 1 primary attempts was made and failed
AllPrimaryFailed ==
    /\ Cardinality(CallsTo("llm")) = max_retries + 1
    /\ \A i \in CallsTo("llm") : FailedCall(llm_calls[i])

\* C39: invoke (and ainvoke) makes at most max_retries + 1 calls to the primary
\* model; whenever every primary attempt has failed, by a malformed response or an
\* exception, and a fallback model is configured, the call ends with the fallback
\* model called exactly once.
C39_FallbackAfterPrimaryFails ==
    /\ Cardinality(CallsTo("llm")) <= max_retries + 1
    /\ Cardinality(CallsTo("fallback_llm")) <= 1
    /\ (llm_pc \in {"returned", "raised"} /\ AllPrimaryFailed /\ fallback_llm) =>
          /\ llm_pc = "returned"
          /\ Cardinality(CallsTo("fallback_llm")) = 1
\* the context records an end date more than SESSION_CLEANUP_DAYS days in the past
ContextExpired(ctx) ==
    /\ ctx.expires_after.given
    /\ ~strptime(ctx.expires_after.text).error
    /\ Today > strptime(ctx.expires_after.text).day + SESSION_CLEANUP_DAYS

\* the contexts of one trip record one end date
OneEndDatePerTrip(context) ==
    \A a, b \in DOMAIN context :
        context[a].trip_id = context[b].trip_id =>
            context[a].expires_after = context[b].expires_after

\* C40: after cleanup_expired_sessions has run, no session context remains for a
\* trip whose recorded end date is more than SESSION_CLEANUP_DAYS (3) days in the
\* past, whatever set_session and clear_session calls came before; and
\* cleanup_trip removes the context of every thread registered for the trip.
C40_ExpiredSessionsCleaned ==
    [][/\ (cache_op' = "cleanup_expired_sessions" /\ OneEndDatePerTrip(_session_context)) =>
            \A thread_id \in DOMAIN _session_context' :
                ~ContextExpired(_session_context'[thread_id])
       /\ (cache_op' = "cleanup_trip" /\ cache_trip' \in DOMAIN _trip_sessions) =>
            \A thread_id \in _trip_sessions[cache_trip'] :
                thread_id \notin DOMAIN _session_context']_vars

====
